---- MODULE Spec2Model ----
(***************************************************************************)
(* Model of the expression-tag pipeline of LocalLLM_Test:                  *)
(*   expression_validator.validate_and_fix_expression_tags                 *)
(*   expression_parser.ExpressionParser / RealTimeExpressionController     *)
(*   phoneme_expression_sync.PhonemeBasedExpressionSync                    *)
(*   llm_face_controller.LLMFaceController.speak_with_lipsync              *)
(*                                                                         *)
(* A Python str is a sequence of tokens.  A token is one character ("<",   *)
(* "/", ">", " ", "\n", "x") or one label word ("happy", "thinking", ...)  *)
(* standing for its run of word characters; TokLen gives the number of     *)
(* characters of a token, so that len() and the offsets of the code are    *)
(* character counts.  The regular expressions of the code are evaluated on *)
(* these sequences with Python's leftmost, non-overlapping semantics.      *)
(***************************************************************************)
EXTENDS Integers, Sequences, FiniteSets, TLC

VARIABLES
  valid_order,    \* the order in which this process iterates valid_expressions
  pc,             \* how far the text has gone through the pipeline
  ai_response,    \* the text at hand: the LLM's response, possibly validated
  validations,    \* how many times validate_and_fix_expression_tags was applied
  before_fix,     \* the argument of the latest validation
  segments,       \* parse_expression_text(ai_response)
  clean_text,     \* remove_expression_tags(ai_response)
  accent_phrases, \* audioquery_data['accent_phrases'] of the latest mapping
  synced_segments, \* the result of create_synced_segments
  has_prepare,    \* hasattr(voice_controller, 'prepare_audioquery')
  is_speaking,    \* LLMFaceController.is_speaking
  is_playing,     \* RealTimeExpressionController.is_playing
  current_expression, \* RealTimeExpressionController.current_expression
  last_call,      \* the label of the latest expression_controller.set_expression
  utterances,     \* how many speak_with_lipsync calls passed the guard
  speak_pc,       \* per utterance: where speak_with_lipsync stands
  speak_result,   \* per utterance: what speak_with_lipsync returned
  timed_out,      \* per utterance: asyncio.wait_for ran into its timeout
  dynamic_pc,     \* per utterance: where speak_with_dynamic_expressions stands
  dynamic_result, \* per utterance: what speak_with_dynamic_expressions returned
  voice_task,     \* per utterance: the speak_with_audioquery_lipsync coroutine
  expression_task, \* per utterance: the _control_expressions_with_timing task
  playing_segments, \* per utterance: the segments the task iterates
  segment_index,  \* per utterance: the segment the task's loop is at
  actuator_calls, \* per utterance: the set_expression calls of the task's loop
  always_succeeds, \* the actuator answers every call with a truthy value
  calls_allowed,  \* how many speak_with_lipsync calls the caller makes
  sync_pc,        \* where play_with_precise_sync stands
  sync_result,    \* what play_with_precise_sync returned
  sync_is_playing, \* PhonemeBasedExpressionSync.is_playing
  sync_current_expression, \* PhonemeBasedExpressionSync.current_expression
  sync_stopped,   \* PhonemeBasedExpressionSync.stop_playback has been called
  audio_task,     \* the _play_audio task
  sync_expression_task, \* the _control_expressions_precise task
  sync_index,     \* the synced segment the task's loop is at
  sync_calls      \* the set_expression calls of the task's loop

(***************************************************************************)
(* Bounds of the model.                                                    *)
(***************************************************************************)
MaxPieces == 3

MaxPhrases == 2

MaxSegments == 2

MaxUtterances == 2

(***************************************************************************)
(* Label sets of the program.                                              *)
(***************************************************************************)
valid_expressions ==
  {"neutral", "happy", "sad", "angry", "surprised",
   "crying", "hurt", "wink", "mouth3", "pien"}

invalid_expressions == {"thinking", "excited", "confused", "sleepy"}

html_tags == {"br", "p", "div", "span"}

(***************************************************************************)
(* Characters and strings.                                                 *)
(***************************************************************************)
Whitespace == {" ", "\n"}

Punctuation == {"<", "/", ">"}

\* \w : a word character (or a token that is a run of them)
IsWord(t) == t \notin Whitespace \cup Punctuation

\* str.lower() on one token
LowerTok(t) ==
  CASE t = "Happy" -> "happy"
    [] t = "SAD"   -> "sad"
    [] OTHER       -> t

\* str.lower()
Lower(s) == [i \in 1..Len(s) |-> LowerTok(s[i])]

\* len() of one token, in characters
TokLen(t) ==
  CASE t \in {"happy", "Happy", "angry"}  -> 5
    [] t \in {"sad", "SAD"}               -> 3
    [] t \in {"hurt", "wink", "pien", "span"} -> 4
    [] t \in {"crying", "mouth3", "sleepy"} -> 6
    [] t \in {"neutral", "excited"}       -> 7
    [] t \in {"thinking", "confused"}     -> 8
    [] t = "surprised"                    -> 9
    [] t = "foo"                          -> 3
    [] t = "div"                          -> 3
    [] t = "br"                           -> 2
    [] OTHER                              -> 1

\* len()
RECURSIVE StrLen(_)
StrLen(s) == IF s = <<>> THEN 0 ELSE TokLen(Head(s)) + StrLen(Tail(s))

\* the character offset at which token k of s starts (0-based, as in Python)
CharPos(s, k) == StrLen(SubSeq(s, 1, k - 1))

\* bool(s.strip())
NonBlank(s) == \E i \in 1..Len(s) : s[i] \notin Whitespace

\* s[i:] starts with the literal lit
StartsWith(s, i, lit) ==
  /\ i >= 1
  /\ i + Len(lit) - 1 <= Len(s)
  /\ \A k \in 1..Len(lit) : s[i + k - 1] = lit[k]

Open(l) == <<"<">> \o l \o <<">">>

Close(l) == <<"<", "/">> \o l \o <<">">>

\* the first position >= from at which the literal lit occurs in s, or 0
RECURSIVE Find(_, _, _)
Find(s, from, lit) ==
  IF from + Len(lit) - 1 > Len(s) THEN 0
  ELSE IF StartsWith(s, from, lit) THEN from
       ELSE Find(s, from + 1, lit)

\* the last token of the run of word tokens starting at i (i - 1 if none)
RECURSIVE WordRunEnd(_, _)
WordRunEnd(s, i) ==
  IF i <= Len(s) /\ IsWord(s[i]) THEN WordRunEnd(s, i + 1) ELSE i - 1

\* <(\w+)> matched at i: the position of its ">" (0 if no match)
OpenTagEnd(s, i) ==
  IF i <= Len(s) /\ s[i] = "<"
  THEN LET e == WordRunEnd(s, i + 1)
       IN IF e >= i + 1 /\ e + 1 <= Len(s) /\ s[e + 1] = ">" THEN e + 1 ELSE 0
  ELSE 0

\* </(\w+)> matched at i: the position of its ">" (0 if no match)
CloseTagEnd(s, i) ==
  IF i + 1 <= Len(s) /\ s[i] = "<" /\ s[i + 1] = "/"
  THEN LET e == WordRunEnd(s, i + 2)
       IN IF e >= i + 2 /\ e + 1 <= Len(s) /\ s[e + 1] = ">" THEN e + 1 ELSE 0
  ELSE 0

NoMatch == [ok |-> FALSE]

\* the first position >= from at which a closing tag of any label starts, or 0
RECURSIVE FindAnyClose(_, _)
FindAnyClose(s, from) ==
  IF from > Len(s) THEN 0
  ELSE IF CloseTagEnd(s, from) # 0 THEN from
       ELSE FindAnyClose(s, from + 1)

\* a plausible slip: the pattern without its backreference, <(\w+)>(.*?)</\w+>
expression_pattern_any_close(s, i) ==
  LET oe == OpenTagEnd(s, i)
  IN IF oe = 0 THEN NoMatch
     ELSE LET c == FindAnyClose(s, oe + 1)
          IN IF c = 0 THEN NoMatch
             ELSE [ok |-> TRUE, start |-> i, label |-> SubSeq(s, i + 1, oe - 1),
                   cfrom |-> oe + 1, cto |-> c - 1, end |-> CloseTagEnd(s, c)]

(***************************************************************************)
(* self.expression_pattern = re.compile(r'<(\w+)>(.*?)</\1>', re.DOTALL)   *)
(* matched at position i of s: group 1 is the label, group 2 the content   *)
(* s[cfrom..cto], the match is s[i..end].                                  *)
(***************************************************************************)
expression_pattern(s, i) ==
  LET oe == OpenTagEnd(s, i)
  IN IF oe = 0 THEN NoMatch
     ELSE LET label == SubSeq(s, i + 1, oe - 1)
              c     == Find(s, oe + 1, Close(label))
          IN IF c = 0 THEN NoMatch
             ELSE [ok |-> TRUE, start |-> i, label |-> label,
                   cfrom |-> oe + 1, cto |-> c - 1,
                   end |-> c + Len(label) + 2]

\* list(self.expression_pattern.finditer(text)), scanning from position i
RECURSIVE finditer(_, _)
finditer(s, i) ==
  IF i > Len(s) THEN <<>>
  ELSE LET m == expression_pattern(s, i)
       IN IF m.ok THEN <<m>> \o finditer(s, m.end + 1)
          ELSE finditer(s, i + 1)

(***************************************************************************)
(* Substitutions.                                                          *)
(***************************************************************************)
\* re.compile(op + '(.*?)' + cl, re.DOTALL).sub(r'\1', s), from position i
RECURSIVE SubPair(_, _, _, _)
SubPair(s, i, op, cl) ==
  IF i > Len(s) THEN <<>>
  ELSE IF StartsWith(s, i, op)
       THEN LET c == Find(s, i + Len(op), cl)
            IN IF c = 0 THEN <<s[i]>> \o SubPair(s, i + 1, op, cl)
               ELSE SubSeq(s, i + Len(op), c - 1)
                      \o SubPair(s, c + Len(cl), op, cl)
       ELSE <<s[i]>> \o SubPair(s, i + 1, op, cl)

\* re.sub(lit, rep, s) for a literal lit, from position i
RECURSIVE SubLit(_, _, _, _)
SubLit(s, i, lit, rep) ==
  IF i > Len(s) THEN <<>>
  ELSE IF StartsWith(s, i, lit)
       THEN rep \o SubLit(s, i + Len(lit), lit, rep)
       ELSE <<s[i]>> \o SubLit(s, i + 1, lit, rep)

\* self.expression_pattern.sub(r'\2', s), from position i
RECURSIVE SubExpressionPattern(_, _)
SubExpressionPattern(s, i) ==
  IF i > Len(s) THEN <<>>
  ELSE LET m == expression_pattern(s, i)
       IN IF m.ok
          THEN SubSeq(s, m.cfrom, m.cto) \o SubExpressionPattern(s, m.end + 1)
          ELSE <<s[i]>> \o SubExpressionPattern(s, i + 1)

\* lit matches at position i of s (ci: under re.IGNORECASE)
MatchLit(s, i, lit, ci) ==
  /\ i + Len(lit) - 1 <= Len(s)
  /\ IF ci THEN Lower(SubSeq(s, i, i + Len(lit) - 1)) = Lower(lit)
           ELSE SubSeq(s, i, i + Len(lit) - 1) = lit

\* re.sub(f'</?{tag}>', '', s) (ci: flags=re.IGNORECASE), from position i
RECURSIVE SubTag(_, _, _, _)
SubTag(s, i, tag, ci) ==
  IF i > Len(s) THEN <<>>
  ELSE IF MatchLit(s, i, Open(tag), ci)
       THEN SubTag(s, i + Len(tag) + 2, tag, ci)
       ELSE IF MatchLit(s, i, Close(tag), ci)
            THEN SubTag(s, i + Len(tag) + 3, tag, ci)
            ELSE <<s[i]>> \o SubTag(s, i + 1, tag, ci)

\* re.sub(r'</?(\w+)>', '', s), from position i
RECURSIVE SubAnyTag(_, _)
SubAnyTag(s, i) ==
  IF i > Len(s) THEN <<>>
  ELSE LET oe == OpenTagEnd(s, i)
           ce == CloseTagEnd(s, i)
       IN IF oe # 0 THEN SubAnyTag(s, oe + 1)
          ELSE IF ce # 0 THEN SubAnyTag(s, ce + 1)
               ELSE <<s[i]>> \o SubAnyTag(s, i + 1)

\* re.sub(r'\s+', ' ', s), from position i
RECURSIVE CollapseWhitespace(_, _)
CollapseWhitespace(s, i) ==
  IF i > Len(s) THEN <<>>
  ELSE IF s[i] \in Whitespace
       THEN IF i > 1 /\ s[i - 1] \in Whitespace
            THEN CollapseWhitespace(s, i + 1)
            ELSE <<" ">> \o CollapseWhitespace(s, i + 1)
       ELSE <<s[i]>> \o CollapseWhitespace(s, i + 1)

\* s.lstrip(), from position i
RECURSIVE LStrip(_, _)
LStrip(s, i) ==
  IF i > Len(s) THEN <<>>
  ELSE IF s[i] \in Whitespace THEN LStrip(s, i + 1)
       ELSE SubSeq(s, i, Len(s))

\* s.rstrip(), up to position i
RECURSIVE RStrip(_, _)
RStrip(s, i) ==
  IF i < 1 THEN <<>>
  ELSE IF s[i] \in Whitespace THEN RStrip(s, i - 1)
       ELSE SubSeq(s, 1, i)

\* s.strip()
Strip(s) == LET l == LStrip(s, 1) IN RStrip(l, Len(l))

\* the order in which "for invalid_expr in self.invalid_expressions" runs.
\* The texts of this model hold one invalid label only ("thinking"), so the
\* result is the same for every order of the set.
invalid_order == <<"thinking", "excited", "confused", "sleepy">>

(***************************************************************************)
(* ExpressionParser._remove_invalid_tags                                   *)
(***************************************************************************)
\* first loop: <l>...</l> and <l>...<l> lose their tags, for l = invalid_order[k..]
RECURSIVE RemoveInvalidPairs(_, _)
RemoveInvalidPairs(s, k) ==
  IF k > Len(invalid_order) THEN s
  ELSE LET l  == <<invalid_order[k]>>
           r1 == SubPair(s, 1, Open(l), Close(l))
           r2 == SubPair(r1, 1, Open(l), Open(l))
       IN RemoveInvalidPairs(r2, k + 1)

\* second loop: re.sub(f'</?{invalid_expr}>', '', result), for invalid_order[k..]
RECURSIVE RemoveInvalidSingles(_, _)
RemoveInvalidSingles(s, k) ==
  IF k > Len(invalid_order) THEN s
  ELSE RemoveInvalidSingles(SubTag(s, 1, <<invalid_order[k]>>, FALSE), k + 1)

\* tag.lower() not in self.valid_expressions and tag.lower() not in html tags
IsUnknownLabel(l) ==
  ~(Len(l) = 1 /\ LowerTok(l[1]) \in valid_expressions \cup html_tags)

\* re.findall(r'</?(\w+)>', s) as a set, from position i
RECURSIVE all_tags(_, _)
all_tags(s, i) ==
  IF i > Len(s) THEN {}
  ELSE LET oe == OpenTagEnd(s, i)
           ce == CloseTagEnd(s, i)
       IN IF oe # 0 THEN {SubSeq(s, i + 1, oe - 1)} \cup all_tags(s, oe + 1)
          ELSE IF ce # 0 THEN {SubSeq(s, i + 2, ce - 1)} \cup all_tags(s, ce + 1)
               ELSE all_tags(s, i + 1)

\* third loop: re.sub(f'</?{tag}>', '', result, flags=re.IGNORECASE) for every
\* unknown tag of the set T, one tag after the other.  The texts of this
\* model hold one unknown label at most ("foo"), so the order of the set does
\* not show.
RECURSIVE RemoveUnknownTags(_, _)
RemoveUnknownTags(s, T) ==
  IF T = {} THEN s
  ELSE LET tag == CHOOSE t \in T : TRUE
       IN RemoveUnknownTags(
            IF IsUnknownLabel(tag) THEN SubTag(s, 1, tag, TRUE) ELSE s,
            T \ {tag})

_remove_invalid_tags(text) ==
  LET r1 == RemoveInvalidPairs(text, 1)
      r2 == RemoveInvalidSingles(r1, 1)
  IN RemoveUnknownTags(r2, all_tags(r2, 1))

(***************************************************************************)
(* ExpressionParser._parse_recursive                                       *)
(***************************************************************************)
ExpressionSegment(t, e, sp, ep) ==
  [text |-> t, expression |-> e, start_pos |-> sp, end_pos |-> ep]

\* a matched label, lower-cased, as one expression name ("" for a label that
\* is a run of several words, which is no expression)
LabelName(l) == IF Len(l) = 1 THEN LowerTok(l[1]) ELSE ""

\* a plausible slip: the allow-list check of line 104 left out
ContentExpressionUnchecked(expression, default_expression) == expression

\* the label under which the content of a matched tag is parsed: the tag's
\* own if it is an allowed expression, the enclosing default otherwise
ContentExpression(expression, default_expression) ==
  IF expression \in valid_expressions THEN expression ELSE default_expression

RECURSIVE _parse_recursive(_, _)
_parse_recursive(txt, default_expression) ==
  LET matches == finditer(txt, 1)
      \* "if start > current_pos": the text before match k
      Before(k, current_pos) ==
        LET start == matches[k].start
            before_text == SubSeq(txt, current_pos, start - 1)
        IN IF start > current_pos /\ NonBlank(before_text)
           THEN <<ExpressionSegment(before_text, default_expression,
                                    CharPos(txt, current_pos), CharPos(txt, start))>>
           ELSE <<>>
      \* the content of match k
      Inner(k) ==
        LET m == matches[k]
            expression == LabelName(m.label)
            content == SubSeq(txt, m.cfrom, m.cto)
            inner_segments ==
              _parse_recursive(content,
                               ContentExpression(expression, default_expression))
        IN IF /\ expression \in valid_expressions
              /\ inner_segments = <<>>
              /\ NonBlank(content)
           THEN <<ExpressionSegment(content, expression,
                                    CharPos(txt, m.start),
                                    CharPos(txt, m.end + 1))>>
           ELSE inner_segments
      \* "if current_pos < len(text)": the text after the last match
      Remaining(current_pos) ==
        LET remaining_text == SubSeq(txt, current_pos, Len(txt))
        IN IF current_pos <= Len(txt) /\ NonBlank(remaining_text)
           THEN <<ExpressionSegment(remaining_text, default_expression,
                                    CharPos(txt, current_pos), StrLen(txt))>>
           ELSE <<>>
      \* "for match in matches", from match k on, and the rest
      RECURSIVE Loop(_, _)
      Loop(k, current_pos) ==
        IF k > Len(matches) THEN Remaining(current_pos)
        ELSE Before(k, current_pos) \o Inner(k) \o Loop(k + 1, matches[k].end + 1)
  IN IF matches = <<>>
     THEN IF NonBlank(txt)
          THEN <<ExpressionSegment(txt, default_expression, 0, StrLen(txt))>>
          ELSE <<>>
     ELSE Loop(1, 1)

(***************************************************************************)
(* ExpressionParser.parse_expression_text                                  *)
(***************************************************************************)
parse_expression_text(txt) ==
  LET processed_text == _remove_invalid_tags(txt)
      segs == _parse_recursive(processed_text, "neutral")
  IN SelectSeq(segs, LAMBDA seg : NonBlank(seg.text))

(***************************************************************************)
(* ExpressionParser._clean_malformed_tags                                  *)
(***************************************************************************)
\* "while True": self.expression_pattern.sub(r'\2', result) until no change
RECURSIVE SubExpressionPatternFix(_)
SubExpressionPatternFix(result) ==
  LET r == SubExpressionPattern(result, 1)
  IN IF r = result THEN result ELSE SubExpressionPatternFix(r)

\* the end of a tag of the given kind ("open": <\w+>, "close": </\w+>) at i
TagEnd(s, i, kind) ==
  IF kind = "open" THEN OpenTagEnd(s, i) ELSE CloseTagEnd(s, i)

\* re.sub of two adjacent tags of kinds k1, k2 by rep, from position i
RECURSIVE SubAdjacentTags(_, _, _, _, _)
SubAdjacentTags(s, i, k1, k2, rep) ==
  IF i > Len(s) THEN <<>>
  ELSE LET e1 == TagEnd(s, i, k1)
           e2 == IF e1 = 0 THEN 0 ELSE TagEnd(s, e1 + 1, k2)
       IN IF e2 # 0 THEN rep \o SubAdjacentTags(s, e2 + 1, k1, k2, rep)
          ELSE <<s[i]>> \o SubAdjacentTags(s, i + 1, k1, k2, rep)

\* re.sub(f'<{expr}>(?!.*</{expr}>)', '', s, flags=re.DOTALL), from position i
RECURSIVE SubUnclosedOpen(_, _, _)
SubUnclosedOpen(s, i, expr) ==
  IF i > Len(s) THEN <<>>
  ELSE IF StartsWith(s, i, Open(expr))
          /\ Find(s, i + Len(expr) + 2, Close(expr)) = 0
       THEN SubUnclosedOpen(s, i + Len(expr) + 2, expr)
       ELSE <<s[i]>> \o SubUnclosedOpen(s, i + 1, expr)

\* "for expr in self.valid_expressions", from valid_order[k] on
RECURSIVE RemoveUnclosedOpens(_, _)
RemoveUnclosedOpens(s, k) ==
  IF k > Len(valid_order) THEN s
  ELSE RemoveUnclosedOpens(SubUnclosedOpen(s, 1, <<valid_order[k]>>), k + 1)

_clean_malformed_tags(txt) ==
  LET r1 == SubExpressionPatternFix(txt)
      r2 == SubAdjacentTags(r1, 1, "close", "open", <<" ">>)
      r3 == SubAdjacentTags(r2, 1, "open", "open", <<"<">>)
      r4 == SubAdjacentTags(r3, 1, "close", "close", <<>>)
  IN RemoveUnclosedOpens(r4, 1)

(***************************************************************************)
(* ExpressionParser.remove_expression_tags                                 *)
(***************************************************************************)
remove_expression_tags(txt) ==
  LET step1 == SubExpressionPattern(txt, 1)
      step2 == _clean_malformed_tags(step1)
      step3 == SubAnyTag(step2, 1)
  IN Strip(CollapseWhitespace(step3, 1))

(***************************************************************************)
(* expression_validator.validate_and_fix_expression_tags                   *)
(***************************************************************************)
\* step 1, "for invalid_expr in invalid_expressions", from invalid_order[k] on
RECURSIVE FixInvalid(_, _)
FixInvalid(fixed_text, k) ==
  IF k > Len(invalid_order) THEN fixed_text
  ELSE LET l  == <<invalid_order[k]>>
           r1 == SubPair(fixed_text, 1, Open(l), Close(l))
           r2 == SubPair(r1, 1, Open(l), Open(l))
           r3 == SubLit(r2, 1, Open(l), <<>>)
       IN FixInvalid(r3, k + 1)

\* re.compile(f'<{valid_expr}>(.*?)<{valid_expr}>').findall(s), from position
\* i: the contents, none of which holds a newline (no re.DOTALL)
RECURSIVE FindallReused(_, _, _)
FindallReused(s, i, l) ==
  IF i > Len(s) THEN <<>>
  ELSE IF StartsWith(s, i, Open(l))
       THEN LET c == Find(s, i + Len(l) + 2, Open(l))
                content == SubSeq(s, i + Len(l) + 2, c - 1)
            IN IF c # 0 /\ \A n \in 1..Len(content) : content[n] # "\n"
               THEN <<content>> \o FindallReused(s, c + Len(l) + 2, l)
               ELSE FindallReused(s, i + 1, l)
       ELSE FindallReused(s, i + 1, l)

\* the replacement with its closing tag written without the slash: nothing
\* changes
ReplaceReusedNoSlash(fixed_text, invalid_matches, n, l) == fixed_text

\* "for content in invalid_matches": fixed_text.replace(invalid_format,
\* correct_format), from invalid_matches[n] on
RECURSIVE ReplaceReused(_, _, _, _)
ReplaceReused(fixed_text, invalid_matches, n, l) ==
  IF n > Len(invalid_matches) THEN fixed_text
  ELSE LET content == invalid_matches[n]
           invalid_format == Open(l) \o content \o Open(l)
           correct_format == Open(l) \o content \o Close(l)
       IN ReplaceReused(SubLit(fixed_text, 1, invalid_format, correct_format),
                        invalid_matches, n + 1, l)

\* step 2, "for valid_expr in valid_expressions", from valid_order[k] on
RECURSIVE FixValid(_, _)
FixValid(fixed_text, k) ==
  IF k > Len(valid_order) THEN fixed_text
  ELSE LET l == <<valid_order[k]>>
       IN FixValid(ReplaceReused(fixed_text, FindallReused(fixed_text, 1, l), 1, l),
                   k + 1)

validate_and_fix_expression_tags(txt) == FixValid(FixInvalid(txt, 1), 1)

(***************************************************************************)
(* PhonemeBasedExpressionSync._extract_phoneme_timing                      *)
(*                                                                         *)
(* Times are counted in tenths of a second.  A time computed with the      *)
(* character-to-time ratio is the fraction num / den.                      *)
(***************************************************************************)
PhonemeSegment(ph, st, et) == [phoneme |-> ph, start_time |-> st, end_time |-> et]

\* "for mora in moras", from mora k on, the clock at current_time
RECURSIVE ExtractMoras(_, _, _)
ExtractMoras(moras, k, current_time) ==
  IF k > Len(moras) THEN [phonemes |-> <<>>, current_time |-> current_time]
  ELSE LET mora == moras[k]
           c == IF mora.consonant # ""
                THEN <<PhonemeSegment(mora.consonant, current_time,
                                      current_time + mora.consonant_length)>>
                ELSE <<>>
           t1 == IF mora.consonant # "" THEN current_time + mora.consonant_length
                 ELSE current_time
           v == IF mora.vowel # ""
                THEN <<PhonemeSegment(mora.vowel, t1, t1 + mora.vowel_length)>>
                ELSE <<>>
           t2 == IF mora.vowel # "" THEN t1 + mora.vowel_length ELSE t1
           rest == ExtractMoras(moras, k + 1, t2)
       IN [phonemes |-> c \o v \o rest.phonemes, current_time |-> rest.current_time]

\* "for phrase in accent_phrases", from phrase k on.  The key pause_mora is
\* "absent", "null" (it holds None) or holds a "mora"; None has no .get, so a
\* null pause_mora raises AttributeError
RECURSIVE ExtractPhrases(_, _, _)
ExtractPhrases(phrases, k, current_time) ==
  IF k > Len(phrases) THEN [raised |-> FALSE, phonemes |-> <<>>]
  ELSE LET phrase == phrases[k]
           m == ExtractMoras(phrase.moras, 1, current_time)
       IN IF phrase.pause_mora.key = "null" THEN [raised |-> TRUE, phonemes |-> <<>>]
          ELSE LET pause_length == IF phrase.pause_mora.key = "absent" THEN 0
                                   ELSE phrase.pause_mora.vowel_length
                   pau == IF pause_length > 0
                          THEN <<PhonemeSegment("pau", m.current_time,
                                                m.current_time + pause_length)>>
                          ELSE <<>>
                   rest == ExtractPhrases(phrases, k + 1,
                                          m.current_time + pause_length)
               IN [raised |-> rest.raised,
                   phonemes |-> m.phonemes \o pau \o rest.phonemes]

_extract_phoneme_timing(phrases) == ExtractPhrases(phrases, 1, 0)

(***************************************************************************)
(* PhonemeBasedExpressionSync._map_expression_to_phonemes                  *)
(***************************************************************************)
\* total_time when there are no phonemes: 1.0 second
default_total_time == 10

\* char_to_time_ratio when the clean text is empty: 0.1 second a character
default_ratio == 1

Fraction(n, d) == [num |-> n, den |-> d]

FracLeq(a, b) == a.num * b.den <= b.num * a.den

FracLess(a, b) == a.num * b.den < b.num * a.den

SyncedExpressionSegment(t, e, st, et, ph) ==
  [text |-> t, expression |-> e, start_time |-> st, end_time |-> et,
   phoneme_segments |-> ph]

_map_expression_to_phonemes(expression_segments, phoneme_segments, clean) ==
  LET total_chars == StrLen(clean)
      total_time == IF phoneme_segments # <<>>
                    THEN phoneme_segments[Len(phoneme_segments)].end_time
                    ELSE default_total_time
      char_to_time_ratio == IF total_chars > 0 THEN Fraction(total_time, total_chars)
                            ELSE Fraction(default_ratio, 1)
      Synced(expr_seg) ==
        LET start_time == Fraction(expr_seg.start_pos * char_to_time_ratio.num,
                                   char_to_time_ratio.den)
            end_time == Fraction(expr_seg.end_pos * char_to_time_ratio.num,
                                 char_to_time_ratio.den)
            related_phonemes ==
              SelectSeq(phoneme_segments,
                        LAMBDA ph : /\ FracLess(Fraction(ph.start_time, 1), end_time)
                                    /\ FracLess(start_time, Fraction(ph.end_time, 1)))
        IN SyncedExpressionSegment(expr_seg.text, expr_seg.expression,
                                   start_time, end_time, related_phonemes)
  IN [i \in 1..Len(expression_segments) |-> Synced(expression_segments[i])]

(***************************************************************************)
(* The responses the language model may produce.                           *)
(***************************************************************************)
\* the strings made of at most n pieces of P
RECURSIVE PieceStrings(_, _)
PieceStrings(P, n) ==
  IF n = 0 THEN {<<>>}
  ELSE LET shorter == PieceStrings(P, n - 1)
       IN shorter \cup {p \o r : p \in P, r \in shorter}

\* opening and closing tags left bare, and text
Pieces ==
  {Open(<<l>>) : l \in {"happy", "sad", "thinking"}}
    \cup {Close(<<l>>) : l \in {"happy", "sad", "thinking"}}
    \cup {<<"x">>, <<" ">>}

\* tags in mixed case, tags of an unknown label, tags of an HTML label
CasePieces ==
  {Open(<<"Happy">>), Close(<<"Happy">>), Close(<<"happy">>),
   Open(<<"foo">>), Close(<<"foo">>), Open(<<"p">>), Close(<<"p">>), <<"x">>}

Texts == {<<"x">>, <<"x", " ", "x">>}

\* <a>X<b>Y</b>Z</a> for allowed labels a, b
Nested(a, X, b, Y, Z) ==
  Open(<<a>>) \o X \o Open(<<b>>) \o Y \o Close(<<b>>) \o Z \o Close(<<a>>)

NestedResponses ==
  {Nested(a, X, b, Y, Z) :
     a \in valid_expressions, b \in valid_expressions,
     X \in Texts, Y \in Texts, Z \in Texts}

\* T<a>X</a>Y<b>Z</b> for allowed labels a, b, as in test_expression_parser
Sequential(T, a, X, Y, b, Z) ==
  T \o Open(<<a>>) \o X \o Close(<<a>>) \o Y \o Open(<<b>>) \o Z \o Close(<<b>>)

SequentialResponses ==
  {Sequential(T, a, X, Y, b, Z) :
     T \in {<<>>, <<"x">>}, a \in {"happy", "angry"}, b \in {"sad", "neutral"},
     X \in {<<>>} \cup Texts, Y \in Texts, Z \in Texts}

\* labels outside the allow-list: unknown, HTML, denylisted
UnknownLabels == {"foo", "p", "thinking"}

\* <a>X<u>Y</u>Z</a> for an allowed label a and a label u that is not allowed
TransparentResponses ==
  {Nested(a, X, u, Y, Z) :
     a \in {"happy", "wink"}, u \in UnknownLabels,
     X \in Texts, Y \in Texts, Z \in Texts}

\* non-blank, tag-free contents of one line, with and without whitespace at
\* the ends or in runs
Contents ==
  Texts \cup {<<" ", "x">>, <<"x", " ">>, <<"x", " ", " ", "x">>}

\* <L>c<L>: the opening tag used again as the closing tag
Reused(L, c) == Open(<<L>>) \o c \o Open(<<L>>)

ReusedResponses == {Reused(L, c) : L \in valid_expressions, c \in Contents}

\* tags without speakable content: <a>c</a>, <a><b>c</b></a> and
\* <a>c</a><b>c</b> for allowed labels a, b and c empty or blank
Blanks == {<<>>, <<" ">>, <<"\n">>}

EmptyTagResponses ==
  {Open(<<a>>) \o c \o Close(<<a>>) : a \in {"happy", "sad"}, c \in Blanks}
    \cup {Nested(a, <<>>, b, c, <<>>) : a \in {"happy"}, b \in {"sad", "happy"}, c \in Blanks}
    \cup {Sequential(<<>>, a, c, <<>>, b, c) : a \in {"happy"}, b \in {"sad"}, c \in Blanks}

\* content of more than one line, between a tag and its reuse and between a
\* matched pair of tags
MultilineContents == {<<"x", "\n", "x">>, <<"x", "\n">>}

MultilineResponses ==
  {Reused(L, c) : L \in {"happy", "sad"}, c \in MultilineContents}
    \cup {Open(<<L>>) \o c \o Close(<<L>>) :
            L \in {"happy", "sad"}, c \in MultilineContents}

\* brackets that belong to no tag, alone and around a tag
BracketPieces == {<<"<">>, <<">">>, <<"/">>, <<"happy">>}

BracketResponses ==
  PieceStrings(BracketPieces, MaxPieces)
    \cup {<<"<">> \o Open(<<l>>) \o <<"happy", ">">> \o c :
            l \in {"thinking", "sad"}, c \in {<<>>, <<"x">>}}

Responses ==
  PieceStrings(Pieces, MaxPieces) \cup PieceStrings(CasePieces, MaxPieces)
    \cup NestedResponses \cup SequentialResponses \cup TransparentResponses
    \cup ReusedResponses \cup EmptyTagResponses \cup BracketResponses
    \cup MultilineResponses

\* Python iterates a set of strings in an order fixed for the process (it
\* depends on the hash seed): the order of the set literal, or its reverse
ValidOrders ==
  LET written == <<"neutral", "happy", "sad", "angry", "surprised",
                   "crying", "hurt", "wink", "mouth3", "pien">>
  IN {written, [i \in 1..Len(written) |-> written[Len(written) + 1 - i]]}

\* the order of a process that plays: the parse does not depend on it
PlayOrder == CHOOSE o \in ValidOrders : o[1] = "neutral"

\* the accent phrases an AudioQuery may hold
Moras ==
  {<<>>,
   <<[consonant |-> "k", vowel |-> "a", consonant_length |-> 1, vowel_length |-> 2]>>,
   <<[consonant |-> "", vowel |-> "N", consonant_length |-> 0, vowel_length |-> 0]>>}

PauseMoras ==
  {[key |-> "absent", vowel_length |-> 0], [key |-> "null", vowel_length |-> 0],
   [key |-> "mora", vowel_length |-> 3]}

Phrases == {[moras |-> m, pause_mora |-> pm] : m \in Moras, pm \in PauseMoras}

\* the sequences of at most n elements of S
RECURSIVE SeqsUpTo(_, _)
SeqsUpTo(S, n) ==
  IF n = 0 THEN {<<>>}
  ELSE LET shorter == SeqsUpTo(S, n - 1)
       IN shorter \cup {<<x>> \o r : x \in S, r \in shorter}

\* the responses whose timeline is mapped
SyncResponses ==
  {Sequential(T, "happy", X, <<"x">>, "sad", <<"x">>) :
     T \in {<<>>, <<"x">>}, X \in {<<>>} \cup Texts}
    \cup {Nested("happy", <<"x">>, "sad", <<"x">>, Z) : Z \in Texts}
    \cup {<<>>, <<"x">>, Open(<<"happy">>), <<"x">> \o Open(<<"happy">>) \o <<"x">>}

(***************************************************************************)
(* The pipeline as a state machine.                                        *)
(***************************************************************************)
textVars == <<valid_order, pc, ai_response, validations, before_fix,
              segments, clean_text, accent_phrases, synced_segments>>

playVars == <<has_prepare, is_speaking, is_playing, current_expression,
              last_call, utterances, speak_pc, speak_result, timed_out,
              dynamic_pc, dynamic_result, voice_task, expression_task,
              playing_segments, segment_index, actuator_calls,
              always_succeeds, calls_allowed>>

syncVars == <<sync_pc, sync_result, sync_is_playing, sync_current_expression,
              sync_stopped, audio_task, sync_expression_task, sync_index,
              sync_calls>>

vars == <<textVars, playVars, syncVars>>

\* the speak_with_lipsync calls that pass the guard
Utterances == 1..MaxUtterances

\* LLMFaceController.__init__ and RealTimeExpressionController.__init__:
\* nothing is spoken, the tracked expression is "neutral"
Constructed ==
  /\ has_prepare \in BOOLEAN
  /\ is_speaking = FALSE
  /\ is_playing = FALSE
  /\ current_expression = "neutral"
  /\ last_call = "none"
  /\ utterances = 0
  /\ speak_pc = [u \in Utterances |-> "none"]
  /\ speak_result = [u \in Utterances |-> "none"]
  /\ timed_out = [u \in Utterances |-> FALSE]
  /\ dynamic_pc = [u \in Utterances |-> "none"]
  /\ dynamic_result = [u \in Utterances |-> "none"]
  /\ voice_task = [u \in Utterances |-> "none"]
  /\ expression_task = [u \in Utterances |-> "none"]
  /\ playing_segments = [u \in Utterances |-> <<>>]
  /\ segment_index = [u \in Utterances |-> 1]
  /\ actuator_calls = [u \in Utterances |-> <<>>]
  /\ always_succeeds \in BOOLEAN
  /\ calls_allowed \in 0..MaxUtterances
  /\ sync_pc = "none"
  /\ sync_result = "none"
  /\ sync_is_playing = FALSE
  /\ sync_current_expression = "neutral"
  /\ sync_stopped = FALSE
  /\ audio_task = "none"
  /\ sync_expression_task = "none"
  /\ sync_index = 1
  /\ sync_calls = <<>>

Init ==
  /\ valid_order \in ValidOrders
  /\ pc = "raw"
  /\ ai_response \in Responses
  /\ validations = 0
  /\ before_fix = <<>>
  /\ segments = <<>>
  /\ clean_text = <<>>
  /\ accent_phrases = <<>>
  /\ synced_segments = <<>>
  /\ Constructed
  /\ has_prepare
  /\ always_succeeds
  /\ calls_allowed = 1

InitSync ==
  /\ valid_order \in ValidOrders
  /\ pc = "raw"
  /\ ai_response \in SyncResponses
  /\ validations = 0
  /\ before_fix = <<>>
  /\ segments = <<>>
  /\ clean_text = <<>>
  /\ accent_phrases = <<>>
  /\ synced_segments = <<>>
  /\ Constructed
  /\ has_prepare
  /\ always_succeeds
  /\ calls_allowed = 1

\* llm_face_controller.get_llm_response: the response is validated; applied
\* to its own result once more, as the idempotence contract has it
Validate ==
  /\ pc \in {"raw", "fixed"}
  /\ validations < 2
  /\ before_fix' = ai_response
  /\ ai_response' = validate_and_fix_expression_tags(ai_response)
  /\ validations' = validations + 1
  /\ pc' = "fixed"
  /\ UNCHANGED <<valid_order, segments, clean_text, accent_phrases, synced_segments>>
  /\ UNCHANGED playVars
  /\ UNCHANGED syncVars

\* speak_with_lipsync / speak_with_dynamic_expressions: the segments and the
\* clean text of the response
Parse ==
  /\ pc \in {"raw", "fixed"}
  /\ validations <= 1
  /\ segments' = parse_expression_text(ai_response)
  /\ clean_text' = remove_expression_tags(ai_response)
  /\ pc' = "parsed"
  /\ UNCHANGED <<valid_order, ai_response, validations, before_fix,
                 accent_phrases, synced_segments>>
  /\ UNCHANGED playVars
  /\ UNCHANGED syncVars

\* PhonemeBasedExpressionSync.create_synced_segments(ai_response,
\* {'accent_phrases': phrases}); an exception on the way yields []
create_synced_segments(phrases) ==
  /\ pc \in {"raw", "fixed"}
  /\ validations <= 1
  /\ segments' = parse_expression_text(ai_response)
  /\ clean_text' = remove_expression_tags(ai_response)
  /\ LET phoneme_data == _extract_phoneme_timing(phrases)
     IN synced_segments' =
          IF phoneme_data.raised THEN <<>>
          ELSE _map_expression_to_phonemes(segments', phoneme_data.phonemes,
                                           clean_text')
  /\ accent_phrases' = phrases
  /\ pc' = "synced"
  /\ UNCHANGED <<valid_order, ai_response, validations, before_fix>>
  /\ UNCHANGED playVars
  /\ UNCHANGED syncVars

CreateSynced == \E phrases \in SeqsUpTo(Phrases, MaxPhrases) : create_synced_segments(phrases)

Next == Validate \/ Parse

Spec == Init /\ [][Next]_vars

NextSync == Validate \/ CreateSynced

SpecSync == InitSync /\ [][NextSync]_vars

(***************************************************************************)
(* Playback.  asyncio runs one coroutine at a time; a coroutine runs       *)
(* without interruption from one suspension (an await of a collaborator,   *)
(* of asyncio.sleep or of asyncio.gather) to the next, so each action is   *)
(* one such run.  How long the collaborators and the sleeps take is left   *)
(* open: a timeout may hit at any suspension.  stop_speaking is called     *)
(* from the UI thread, between any two runs.  A collaborator that is       *)
(* cancelled is taken to end at once.  A speak_with_lipsync call that the  *)
(* is_speaking guard rejects returns False and changes nothing.            *)
(***************************************************************************)
\* <happy>x</happy><sad>x</sad><happy>x</happy>... of n tagged pieces
RECURSIVE Chain(_)
Chain(n) ==
  IF n = 0 THEN <<>>
  ELSE LET l == IF n % 2 = 1 THEN "happy" ELSE "sad"
       IN Chain(n - 1) \o Open(<<l>>) \o <<"x">> \o Close(<<l>>)

\* <a>x</a><a>x</a><b>x</b>: two pieces with one label, then another label
RepeatedLabel(a, b) ==
  Open(<<a>>) \o <<"x">> \o Close(<<a>>) \o Open(<<a>>) \o <<"x">> \o Close(<<a>>)
    \o Open(<<b>>) \o <<"x">> \o Close(<<b>>)

\* the texts speak_with_lipsync is called with: no tag, tags around nothing,
\* up to MaxSegments tagged pieces, and a label that repeats
PlayResponses ==
  {<<"x">>, Open(<<"happy">>) \o Close(<<"happy">>), RepeatedLabel("happy", "sad")}
    \cup {Chain(n) : n \in 1..MaxSegments}

\* '<' in text and '>' in text and '</' in text
has_expression_tags(txt) ==
  /\ \E i \in 1..Len(txt) : txt[i] = "<"
  /\ \E i \in 1..Len(txt) : txt[i] = ">"
  /\ \E i \in 1..Len(txt) : StartsWith(txt, i, <<"<", "/">>)

\* what expression_controller.set_expression may answer to a call
set_expression_results == IF always_succeeds THEN {TRUE} ELSE BOOLEAN

\* a _set_expression that calls the actuator whatever the tracked expression
_set_expression_unconditional(cur, expression, result) ==
  [current |-> IF result THEN expression ELSE cur, called |-> TRUE]

\* a _set_expression that tracks the expression whatever the actuator answers
_set_expression_untested(cur, expression, result) ==
  IF expression # cur
  THEN [current |-> expression, called |-> TRUE]
  ELSE [current |-> cur, called |-> FALSE]

\* RealTimeExpressionController._set_expression with the tracked expression
\* cur; result is what the actuator answers when it is called (falsy, or an
\* exception, which is caught: both leave the tracked expression alone)
_set_expression(cur, expression, result) ==
  IF expression # cur
  THEN [current |-> IF result THEN expression ELSE cur, called |-> TRUE]
  ELSE [current |-> cur, called |-> FALSE]

\* speak_with_lipsync returning r with no finally clause
ReturnWithoutFinally(u, r) ==
  /\ speak_pc' = [speak_pc EXCEPT ![u] = "returned"]
  /\ speak_result' = [speak_result EXCEPT ![u] = r]
  /\ is_speaking' = is_speaking

\* speak_with_lipsync returns r: finally is_speaking = False
Return(u, r) ==
  /\ speak_pc' = [speak_pc EXCEPT ![u] = "returned"]
  /\ speak_result' = [speak_result EXCEPT ![u] = r]
  /\ is_speaking' = FALSE

\* _play_segments_with_expressions up to its await of gather: the voice
\* task and the expression task are created; the loop runs them before any
\* timer, the voice task up to its collaborator's first suspension
_play_segments_with_expressions(u) ==
  /\ dynamic_pc' = [dynamic_pc EXCEPT ![u] = "gathering"]
  /\ voice_task' = [voice_task EXCEPT ![u] = "speaking"]
  /\ expression_task' = [expression_task EXCEPT ![u] = "created"]

\* LLMFaceController.speak_with_lipsync(txt), a call that passes the guard,
\* up to its first suspension.  With tags, speak_with_dynamic_expressions
\* runs inside asyncio.wait_for: is_playing, the parse, the base expression,
\* then the await of prepare_audioquery or of the two tasks.  Without tags
\* the voice coroutine is awaited inside asyncio.wait_for.  A task created
\* by an earlier call has had its first run: the loop runs it before a
\* coroutine that is started later.
speak_with_lipsync(txt, result) ==
  /\ ~is_speaking
  /\ utterances < calls_allowed
  /\ \A v \in Utterances : expression_task[v] # "created"
  /\ LET u == utterances + 1
         base == _set_expression(current_expression, "neutral", result)
     IN /\ utterances' = u
        /\ is_speaking' = TRUE
        /\ IF has_expression_tags(txt)
           THEN /\ speak_pc' = [speak_pc EXCEPT ![u] = "dynamic"]
                /\ is_playing' = TRUE
                /\ playing_segments' =
                     [playing_segments EXCEPT ![u] = parse_expression_text(txt)]
                /\ current_expression' = base.current
                /\ last_call' = IF base.called THEN "neutral" ELSE last_call
                /\ IF has_prepare
                   THEN /\ dynamic_pc' = [dynamic_pc EXCEPT ![u] = "preparing"]
                        /\ UNCHANGED <<voice_task, expression_task>>
                   ELSE _play_segments_with_expressions(u)
           ELSE /\ speak_pc' = [speak_pc EXCEPT ![u] = "voice"]
                /\ voice_task' = [voice_task EXCEPT ![u] = "speaking"]
                /\ UNCHANGED <<is_playing, playing_segments, current_expression,
                               last_call, dynamic_pc, expression_task>>
  /\ UNCHANGED <<has_prepare, always_succeeds, calls_allowed, speak_result, timed_out, dynamic_result,
                 segment_index, actuator_calls>>
  /\ UNCHANGED textVars
  /\ UNCHANGED syncVars

SpeakWithLipsync ==
  \E txt \in PlayResponses, result \in set_expression_results : speak_with_lipsync(txt, result)

\* prepare_audioquery ends: with audio info the two tasks are created and
\* gathered; with a falsy value, or an exception, speak_with_dynamic_expressions
\* returns False, and so does speak_with_lipsync
prepare_audioquery(u, audio_info) ==
  /\ dynamic_pc[u] = "preparing"
  /\ IF audio_info
     THEN /\ _play_segments_with_expressions(u)
          /\ UNCHANGED <<is_playing, dynamic_result, speak_pc, speak_result,
                         is_speaking>>
     ELSE /\ dynamic_pc' = [dynamic_pc EXCEPT ![u] = "returned"]
          /\ dynamic_result' = [dynamic_result EXCEPT ![u] = "False"]
          /\ is_playing' = FALSE
          /\ Return(u, "False")
          /\ UNCHANGED <<voice_task, expression_task>>
  /\ UNCHANGED <<has_prepare, always_succeeds, calls_allowed, current_expression, last_call, utterances,
                 timed_out, playing_segments, segment_index, actuator_calls>>
  /\ UNCHANGED textVars
  /\ UNCHANGED syncVars

PrepareAudioquery ==
  \E u \in Utterances, audio_info \in BOOLEAN : prepare_audioquery(u, audio_info)

\* speak_with_audioquery_lipsync ends: it returns a truthy or a falsy value,
\* or it raises.  Awaited by speak_with_lipsync itself (no tags), the value
\* is the result, an exception gives False.
speak_with_audioquery_lipsync(u, outcome) ==
  /\ voice_task[u] = "speaking"
  /\ voice_task' = [voice_task EXCEPT ![u] = outcome]
  /\ IF speak_pc[u] = "voice"
     THEN Return(u, IF outcome = "True" THEN "True" ELSE "False")
     ELSE UNCHANGED <<speak_pc, speak_result, is_speaking>>
  /\ UNCHANGED <<has_prepare, always_succeeds, calls_allowed, is_playing, current_expression, last_call,
                 utterances, timed_out, dynamic_pc, dynamic_result,
                 expression_task, playing_segments, segment_index, actuator_calls>>
  /\ UNCHANGED textVars
  /\ UNCHANGED syncVars

VoiceEnds ==
  \E u \in Utterances, outcome \in {"True", "False", "raised"} :
    speak_with_audioquery_lipsync(u, outcome)

\* one run of the expression task: the loop of _control_expressions_with_timing
\* from its top to the sleep of the segment, or to its end.  is_playing is
\* read at the top of the loop only.
_control_expressions_with_timing(u, result) ==
  /\ expression_task[u] \in {"created", "ready"}
  /\ IF segment_index[u] > Len(playing_segments[u]) THEN
       /\ expression_task' = [expression_task EXCEPT ![u] = "done"]
       /\ UNCHANGED <<current_expression, last_call, segment_index,
                      actuator_calls>>
     ELSE IF ~is_playing THEN
       /\ expression_task' = [expression_task EXCEPT ![u] = "done"]
       /\ UNCHANGED <<current_expression, last_call, segment_index,
                      actuator_calls>>
     ELSE
       LET segment == playing_segments[u][segment_index[u]]
           set == _set_expression(current_expression, segment.expression, result)
       IN /\ current_expression' = set.current
          /\ last_call' = IF set.called THEN segment.expression ELSE last_call
          /\ segment_index' = [segment_index EXCEPT ![u] = @ + 1]
          /\ actuator_calls' =
               [actuator_calls EXCEPT
                  ![u] = IF set.called
                         THEN Append(@, [expression |-> segment.expression,
                                         result |-> result])
                         ELSE @]
          /\ expression_task' =
               [expression_task EXCEPT
                  ![u] = IF Strip(segment.text) # <<>> THEN "sleeping" ELSE "ready"]
  /\ UNCHANGED <<has_prepare, always_succeeds, calls_allowed, is_speaking, is_playing, utterances, speak_pc,
                 speak_result, timed_out, dynamic_pc, dynamic_result,
                 voice_task, playing_segments>>
  /\ UNCHANGED textVars
  /\ UNCHANGED syncVars

ControlExpressions ==
  \E u \in Utterances, result \in set_expression_results :
    _control_expressions_with_timing(u, result)

\* asyncio.sleep(segment_duration) is over: the expression task can run
SleepEnds ==
  \E u \in Utterances :
    /\ expression_task[u] = "sleeping"
    /\ expression_task' = [expression_task EXCEPT ![u] = "ready"]
    /\ UNCHANGED <<has_prepare, always_succeeds, calls_allowed, is_speaking, is_playing, current_expression,
                   last_call, utterances, speak_pc, speak_result, timed_out,
                   dynamic_pc, dynamic_result, voice_task, playing_segments,
                   segment_index, actuator_calls>>
    /\ UNCHANGED textVars
    /\ UNCHANGED syncVars

\* asyncio.gather(voice_task, expression_task) is over for its awaiter: both
\* tasks have returned, or the voice task has raised (the first exception is
\* handed on at once, the other task runs on)
gather_done(voice, expression) ==
  IF voice = "raised" THEN expression # "created"
  ELSE voice \in {"True", "False"} /\ expression = "done"

\* the rest of speak_with_dynamic_expressions once gather is over:
\* _play_segments_with_expressions returns the voice result, or False after an
\* exception; the caller drops that value, sets the base expression and
\* returns True; finally is_playing = False.  speak_with_lipsync hands the
\* value on.
speak_with_dynamic_expressions(u, result) ==
  /\ dynamic_pc[u] = "gathering"
  /\ gather_done(voice_task[u], expression_task[u])
  /\ LET base == _set_expression(current_expression, "neutral", result)
     IN /\ current_expression' = base.current
        /\ last_call' = IF base.called THEN "neutral" ELSE last_call
  /\ dynamic_pc' = [dynamic_pc EXCEPT ![u] = "returned"]
  /\ dynamic_result' = [dynamic_result EXCEPT ![u] = "True"]
  /\ is_playing' = FALSE
  /\ Return(u, dynamic_result'[u])
  /\ UNCHANGED <<has_prepare, always_succeeds, calls_allowed, utterances, timed_out, voice_task,
                 expression_task, playing_segments, segment_index, actuator_calls>>
  /\ UNCHANGED textVars
  /\ UNCHANGED syncVars

SpeakWithDynamicExpressions ==
  \E u \in Utterances, result \in set_expression_results :
    speak_with_dynamic_expressions(u, result)

\* a cancellation that reaches the speaking coroutine only
cancel_voice_only(task) == IF task = "speaking" THEN "cancelled" ELSE task

\* Task.cancel(): a task that has not ended gets CancelledError at its
\* suspension and ends; a task that has ended is left as it is
cancel(task) ==
  IF task \in {"created", "ready", "sleeping", "speaking"} THEN "cancelled"
  ELSE task

\* the timeout of asyncio.wait_for expires while speak_with_lipsync awaits.
\* The awaited coroutine is cancelled: CancelledError is no Exception, so in
\* speak_with_dynamic_expressions only finally runs (is_playing = False); the
\* cancelled gather cancels both tasks.  wait_for raises TimeoutError and
\* speak_with_lipsync returns False.
wait_for_timeout(u) ==
  /\ speak_pc[u] \in {"dynamic", "voice"}
  /\ expression_task[u] # "created"
  /\ timed_out' = [timed_out EXCEPT ![u] = TRUE]
  /\ voice_task' = [voice_task EXCEPT ![u] = cancel(@)]
  /\ expression_task' = [expression_task EXCEPT ![u] = cancel(@)]
  /\ IF speak_pc[u] = "dynamic"
     THEN /\ dynamic_pc' = [dynamic_pc EXCEPT ![u] = "cancelled"]
          /\ is_playing' = FALSE
     ELSE UNCHANGED <<dynamic_pc, is_playing>>
  /\ Return(u, "False")
  /\ UNCHANGED <<has_prepare, always_succeeds, calls_allowed, current_expression, last_call, utterances,
                 dynamic_result, playing_segments, segment_index, actuator_calls>>
  /\ UNCHANGED textVars
  /\ UNCHANGED syncVars

WaitForTimeout == \E u \in Utterances : wait_for_timeout(u)

\* LLMFaceController.stop_speaking, with stop_playback: the voice is asked to
\* stop, both flags are cleared
stop_speaking ==
  /\ is_playing' = FALSE
  /\ is_speaking' = FALSE
  /\ UNCHANGED <<has_prepare, always_succeeds, calls_allowed, current_expression, last_call, utterances,
                 speak_pc, speak_result, timed_out, dynamic_pc,
                 dynamic_result, voice_task, expression_task,
                 playing_segments, segment_index, actuator_calls>>
  /\ UNCHANGED textVars
  /\ UNCHANGED syncVars

\* one utterance, with an actuator that may fail or that always succeeds
InitPlay ==
  /\ valid_order = PlayOrder
  /\ pc = "raw"
  /\ ai_response = <<>>
  /\ validations = 0
  /\ before_fix = <<>>
  /\ segments = <<>>
  /\ clean_text = <<>>
  /\ accent_phrases = <<>>
  /\ synced_segments = <<>>
  /\ Constructed
  /\ calls_allowed = 1

NextPlay ==
  \/ SpeakWithLipsync
  \/ PrepareAudioquery
  \/ VoiceEnds
  \/ ControlExpressions
  \/ SleepEnds
  \/ SpeakWithDynamicExpressions
  \/ WaitForTimeout
  \/ stop_speaking

SpecPlay == InitPlay /\ [][NextPlay]_vars

\* the caller speaks up to MaxUtterances times, again after stop_speaking or
\* after an utterance has returned; the actuator always succeeds
InitDispatch ==
  /\ valid_order = PlayOrder
  /\ pc = "raw"
  /\ ai_response = <<>>
  /\ validations = 0
  /\ before_fix = <<>>
  /\ segments = <<>>
  /\ clean_text = <<>>
  /\ accent_phrases = <<>>
  /\ synced_segments = <<>>
  /\ Constructed
  /\ always_succeeds
  /\ calls_allowed = MaxUtterances

SpecDispatch == InitDispatch /\ [][NextPlay]_vars

\* one utterance under the scheduling of asyncio: the event loop runs a task
\* that is ready, a timer that has been set fires (the sleep of a segment,
\* the deadline of wait_for), and an awaiter is woken when what it awaits is
\* over.  Nothing is assumed of the synthesizer: prepare_audioquery and
\* speak_with_audioquery_lipsync may never end.
FairPlay ==
  /\ WF_vars(ControlExpressions)
  /\ WF_vars(SleepEnds)
  /\ WF_vars(SpeakWithDynamicExpressions)
  /\ WF_vars(WaitForTimeout)

SpecFairPlay == InitPlay /\ [][NextPlay]_vars /\ FairPlay

\* LLMFaceController.set_expression(expression): the actuator is called
\* directly; the expression tracked by the RealTimeExpressionController is
\* not touched.  process_user_input is this call, the wait for the response
\* of the LLM, and then speak_with_lipsync
set_expression(expression) ==
  /\ last_call' = expression
  /\ UNCHANGED <<has_prepare, always_succeeds, calls_allowed, is_speaking,
                 is_playing, current_expression, utterances, speak_pc,
                 speak_result, timed_out, dynamic_pc, dynamic_result,
                 voice_task, expression_task, playing_segments,
                 segment_index, actuator_calls>>
  /\ UNCHANGED textVars
  /\ UNCHANGED syncVars

SetExpression == \E expression \in {"happy", "neutral"} : set_expression(expression)

\* one utterance and calls of set_expression, the actuator always succeeds
InitFace ==
  /\ InitPlay
  /\ always_succeeds

NextFace == NextPlay \/ SetExpression

SpecFace == InitFace /\ [][NextFace]_vars

(***************************************************************************)
(* Playback by PhonemeBasedExpressionSync.play_with_precise_sync, called   *)
(* once with the result of create_synced_segments.  The   expression task  *)
(* sleeps until a segment starts when that moment is still ahead           *)
(* (wait_time > 0, which takes start_time > 0), and runs on without a      *)
(* suspension when it is not.  stop_playback may be called between any two *)
(* runs.                                                                   *)
(***************************************************************************)
\* play_with_precise_sync up to its await of gather: is_playing, the audio
\* task and the expression task
play_with_precise_sync ==
  /\ pc = "synced"
  /\ sync_pc = "none"
  /\ sync_pc' = "gathering"
  /\ sync_is_playing' = TRUE
  /\ audio_task' = "playing"
  /\ sync_expression_task' = "created"
  /\ UNCHANGED <<sync_result, sync_current_expression, sync_stopped,
                 sync_index, sync_calls>>
  /\ UNCHANGED textVars
  /\ UNCHANGED playVars

\* _play_audio ends: it returns, or it raises
_play_audio(outcome) ==
  /\ audio_task = "playing"
  /\ audio_task' = outcome
  /\ UNCHANGED <<sync_pc, sync_result, sync_is_playing, sync_current_expression,
                 sync_stopped, sync_expression_task, sync_index, sync_calls>>
  /\ UNCHANGED textVars
  /\ UNCHANGED playVars

AudioEnds == \E outcome \in {"done", "raised"} : _play_audio(outcome)

\* the loop of _control_expressions_precise from the top of iteration i
\* (PreciseLoop) and from the call of _set_expression in iteration i
\* (PreciseSwitch), up to the next sleep or to the end: is_playing is read at
\* the top; waits[i] says whether iteration i has to wait, results[i] what
\* the actuator answers in iteration i
RECURSIVE PreciseLoop(_, _, _, _, _)
RECURSIVE PreciseSwitch(_, _, _, _, _)
PreciseLoop(i, cur, calls, results, waits) ==
  IF i > Len(synced_segments) \/ ~sync_is_playing
  THEN [task |-> "done", index |-> i, current |-> cur, calls |-> calls]
  ELSE IF waits[i]
  THEN [task |-> "sleeping", index |-> i, current |-> cur, calls |-> calls]
  ELSE PreciseSwitch(i, cur, calls, results, waits)

\* a loop that takes the segments from the last one to the first
PreciseSwitchReversed(i, cur, calls, results, waits) ==
  LET segment == synced_segments[Len(synced_segments) + 1 - i]
      set == _set_expression(cur, segment.expression, results[i])
  IN PreciseLoop(i + 1, set.current,
                 IF set.called
                 THEN Append(calls, [expression |-> segment.expression,
                                     result |-> results[i]])
                 ELSE calls,
                 results, waits)

PreciseSwitch(i, cur, calls, results, waits) ==
  LET set == _set_expression(cur, synced_segments[i].expression, results[i])
  IN PreciseLoop(i + 1, set.current,
                 IF set.called
                 THEN Append(calls, [expression |-> synced_segments[i].expression,
                                     result |-> results[i]])
                 ELSE calls,
                 results, waits)

\* one run of the expression task: from its start, or from the end of a sleep
_control_expressions_precise(results, waits) ==
  /\ sync_expression_task \in {"created", "woken"}
  /\ sync_index' =
       (IF sync_expression_task = "created"
        THEN PreciseLoop(sync_index, sync_current_expression, sync_calls, results, waits)
        ELSE PreciseSwitch(sync_index, sync_current_expression, sync_calls, results, waits)).index
  /\ sync_expression_task' =
       (IF sync_expression_task = "created"
        THEN PreciseLoop(sync_index, sync_current_expression, sync_calls, results, waits)
        ELSE PreciseSwitch(sync_index, sync_current_expression, sync_calls, results, waits)).task
  /\ sync_current_expression' =
       (IF sync_expression_task = "created"
        THEN PreciseLoop(sync_index, sync_current_expression, sync_calls, results, waits)
        ELSE PreciseSwitch(sync_index, sync_current_expression, sync_calls, results, waits)).current
  /\ sync_calls' =
       (IF sync_expression_task = "created"
        THEN PreciseLoop(sync_index, sync_current_expression, sync_calls, results, waits)
        ELSE PreciseSwitch(sync_index, sync_current_expression, sync_calls, results, waits)).calls
  /\ UNCHANGED <<sync_pc, sync_result, sync_is_playing, sync_stopped, audio_task>>
  /\ UNCHANGED textVars
  /\ UNCHANGED playVars

ControlExpressionsPrecise ==
  \E results \in [1..Len(synced_segments) -> set_expression_results],
     waits \in [1..Len(synced_segments) -> BOOLEAN] :
    /\ \A i \in 1..Len(synced_segments) :
         waits[i] => synced_segments[i].start_time.num > 0
    /\ _control_expressions_precise(results, waits)

\* asyncio.sleep(wait_time) is over: the expression task can run
PreciseSleepEnds ==
  /\ sync_expression_task = "sleeping"
  /\ sync_expression_task' = "woken"
  /\ UNCHANGED <<sync_pc, sync_result, sync_is_playing, sync_current_expression,
                 sync_stopped, audio_task, sync_index, sync_calls>>
  /\ UNCHANGED textVars
  /\ UNCHANGED playVars

\* gather(audio_task, expression_task, return_exceptions=True) is over: both
\* tasks have ended.  False for an exception of a task, True otherwise;
\* finally is_playing = False.
play_with_precise_sync_returns ==
  /\ sync_pc = "gathering"
  /\ audio_task \in {"done", "raised"}
  /\ sync_expression_task = "done"
  /\ sync_pc' = "returned"
  /\ sync_result' = IF audio_task = "raised" THEN "False" ELSE "True"
  /\ sync_is_playing' = FALSE
  /\ UNCHANGED <<sync_current_expression, sync_stopped, audio_task,
                 sync_expression_task, sync_index, sync_calls>>
  /\ UNCHANGED textVars
  /\ UNCHANGED playVars

\* PhonemeBasedExpressionSync.stop_playback
stop_playback ==
  /\ sync_is_playing' = FALSE
  /\ sync_stopped' = TRUE
  /\ UNCHANGED <<sync_pc, sync_result, sync_current_expression, audio_task,
                 sync_expression_task, sync_index, sync_calls>>
  /\ UNCHANGED textVars
  /\ UNCHANGED playVars

InitPrecise ==
  /\ valid_order = PlayOrder
  /\ pc = "raw"
  /\ ai_response \in SyncResponses
  /\ validations = 0
  /\ before_fix = <<>>
  /\ segments = <<>>
  /\ clean_text = <<>>
  /\ accent_phrases = <<>>
  /\ synced_segments = <<>>
  /\ Constructed
  /\ has_prepare
  /\ calls_allowed = 1

NextPrecise ==
  \/ CreateSynced
  \/ play_with_precise_sync
  \/ AudioEnds
  \/ ControlExpressionsPrecise
  \/ PreciseSleepEnds
  \/ play_with_precise_sync_returns
  \/ stop_playback

SpecPrecise == InitPrecise /\ [][NextPrecise]_vars

\* mapped responses of no segment and of three segments
ScheduleResponses ==
  {<<>>,
   Sequential(<<>>, "happy", <<"x", " ", "x">>, <<"x">>, "sad", <<"x">>)}

\* either orchestrator plays: the controller of LLMFaceController speaks one
\* utterance (the empty response is parsed and nothing is mapped), or
\* play_with_precise_sync plays the mapped response and nobody speaks
InitSchedules ==
  /\ valid_order = PlayOrder
  /\ validations = 0
  /\ before_fix = <<>>
  /\ segments = <<>>
  /\ clean_text = <<>>
  /\ accent_phrases = <<>>
  /\ synced_segments = <<>>
  /\ Constructed
  /\ \/ /\ pc = "parsed"
        /\ ai_response = <<>>
        /\ calls_allowed = 1
     \/ /\ pc = "raw"
        /\ ai_response \in ScheduleResponses
        /\ has_prepare
        /\ calls_allowed = 0

NextSchedules == NextPlay \/ NextPrecise

SpecSchedules == InitSchedules /\ [][NextSchedules]_vars

(***************************************************************************)
(* Properties.                                                             *)
(***************************************************************************)
\* "".join(seg.text for seg in segs)
RECURSIVE JoinTexts(_)
JoinTexts(segs) ==
  IF segs = <<>> THEN <<>> ELSE Head(segs).text \o JoinTexts(Tail(segs))

\* [(seg.text, seg.expression) for seg in segs]
TextsAndLabels(segs) ==
  [i \in 1..Len(segs) |-> <<segs[i].text, segs[i].expression>>]

\* s[a:b] = t for character offsets a, b (t not empty)
SliceIs(s, a, b, t) ==
  \E i \in 1..Len(s) :
    /\ CharPos(s, i) = a
    /\ i + Len(t) - 1 <= Len(s)
    /\ SubSeq(s, i, i + Len(t) - 1) = t
    /\ CharPos(s, i + Len(t)) = b

\* C1: validating is idempotent: validating a validated text changes nothing
C1_Idempotent == validations = 2 => ai_response = before_fix

\* C2: the segments of a parse have ascending, non-overlapping offsets:
\* start_pos <= end_pos, and start_pos >= the end_pos of the segment before
C2_AscendingOffsets ==
  pc = "parsed" =>
    \A i \in 1..Len(segments) :
      /\ segments[i].start_pos <= segments[i].end_pos
      /\ i > 1 => segments[i].start_pos >= segments[i - 1].end_pos

\* C7: parsing <a>X<b>Y</b>Z</a>, a and b distinct allowed labels, yields
\* exactly (X, a), (Y, b), (Z, a): Z gets the enclosing label again
C7_NoLabelLeakage ==
  (pc = "parsed" /\ Len(ai_response) > 1) =>
    \A a \in valid_expressions :
      ai_response[2] = a =>
        \A b \in valid_expressions \ {a} :
          \A X \in Texts, Y \in Texts, Z \in Texts :
            ai_response = Nested(a, X, b, Y, Z) =>
              TextsAndLabels(segments) = <<<<X, a>>, <<Y, b>>, <<Z, a>>>>

C7_Witness ==
  /\ pc = "parsed"
  /\ ai_response = Nested("wink", <<"x">>, "happy", <<"x", " ", "x">>, <<"x">>)
  /\ TextsAndLabels(segments) =
       << <<<<"x">>, "wink">>, <<<<"x", " ", "x">>, "happy">>, <<<<"x">>, "wink">> >>

\* C8: the texts of the segments, concatenated in order, are the clean text
C8_CleanTextRoundTrip == pc = "parsed" => JoinTexts(segments) = clean_text

\* C9: the offsets of every segment are positions in the clean text:
\* end_pos - start_pos = len(text), end_pos <= len(clean text), and
\* clean_text[start_pos:end_pos] = text
C9_OffsetsInCleanText ==
  pc = "parsed" =>
    \A i \in 1..Len(segments) :
      /\ segments[i].end_pos - segments[i].start_pos = StrLen(segments[i].text)
      /\ segments[i].end_pos <= StrLen(clean_text)
      /\ SliceIs(clean_text, segments[i].start_pos, segments[i].end_pos,
                 segments[i].text)

\* C10: every segment of a parse carries a label of the allow-list
C10_LabelClosure ==
  pc = "parsed" =>
    \A i \in 1..Len(segments) :
      segments[i].expression \in
        {"neutral", "happy", "sad", "angry", "surprised",
         "crying", "hurt", "wink", "mouth3", "pien"}

\* a matched pair of tags whose label is not allowed: its content is parsed
\* under the default label
C10_Witness ==
  /\ pc = "parsed"
  /\ ai_response = Open(<<"p">>) \o <<"x">> \o Close(<<"p">>)
  /\ Len(segments) = 1
  /\ segments[1].text = <<"x">>
  /\ segments[1].expression = "neutral"

\* C3: the start times of the synced segments never decrease
C3_MonotonicTimeline ==
  pc = "synced" =>
    \A i \in 1..Len(synced_segments) - 1 :
      FracLeq(synced_segments[i].start_time, synced_segments[i + 1].start_time)

\* C4: when speak_with_audioquery_lipsync returned a falsy value or raised
\* during playback, speak_with_dynamic_expressions returns False
C4_SynthesisFailurePropagated ==
  \A u \in Utterances :
    (dynamic_pc[u] = "returned" /\ voice_task[u] \in {"False", "raised"}) =>
      dynamic_result[u] = "False"

\* C5: the step in which the timeout around speak_with_dynamic_expressions
\* makes speak_with_lipsync return leaves the tracked expression on the base
\* label, or the latest actuator call was one for the base label
C5_RevertAttemptedOnTimeout ==
  [][\A u \in Utterances :
       (dynamic_pc[u] # "cancelled" /\ dynamic_pc'[u] = "cancelled") =>
         (current_expression' = "neutral" \/ last_call' = "neutral")]_vars

C11_TransparentUnknownTags ==
  (pc = "parsed" /\ validations = 0) =>
    \A a \in valid_expressions, u \in UnknownLabels :
      \A X \in Texts, Y \in Texts, Z \in Texts :
        ai_response = Nested(a, X, u, Y, Z) =>
          TextsAndLabels(segments) = <<<<X, a>>, <<Y, a>>, <<Z, a>>>>

\* c has no whitespace at its ends and no run of whitespace
IsNormalised(c) ==
  /\ c # <<>>
  /\ c[1] \notin Whitespace
  /\ c[Len(c)] \notin Whitespace
  /\ \A i \in 1..Len(c) - 1 : ~(c[i] \in Whitespace /\ c[i + 1] \in Whitespace)

HasDenylistedTag(s) ==
  \E i \in 1..Len(s), l \in invalid_expressions :
    StartsWith(s, i, Open(<<l>>)) \/ StartsWith(s, i, Close(<<l>>))

\* C13: a validated text holds no opening and no closing tag of a denylisted
\* label, and its characters outside tags are those of the input, in order
C13_DenylistCollapse ==
  validations >= 1 =>
    /\ ~HasDenylistedTag(ai_response)
    /\ SubAnyTag(ai_response, 1) = SubAnyTag(before_fix, 1)

\* the labels of a sequence of segments or of actuator calls
Expressions(seq) == [i \in 1..Len(seq) |-> seq[i].expression]

\* the expression task of utterance u has gone through all its segments
AllSegmentsPlayed(u) ==
  /\ expression_task[u] = "done"
  /\ segment_index[u] = Len(playing_segments[u]) + 1

\* every actuator call of the expression task of utterance u has succeeded
AllCallsSucceeded(u) ==
  \A i \in 1..Len(actuator_calls[u]) : actuator_calls[u][i].result

\* C14: the expression task never calls the actuator with the label that is
\* tracked at the time of the call; and when the actuator succeeds at every
\* call, a single utterance whose segments are labelled a, a, b (the tracked
\* label is the base one, not a, when the first is reached) gets exactly two
\* calls for its segments, a once and then b once
C14_RedundantSwitchesSuppressed ==
  [][\A u \in Utterances :
       /\ Len(actuator_calls'[u]) > Len(actuator_calls[u]) =>
            actuator_calls'[u][Len(actuator_calls'[u])].expression # current_expression
       /\ ( /\ utterances' = 1
            /\ Len(playing_segments'[u]) = 3
            /\ playing_segments'[u][1].expression = playing_segments'[u][2].expression
            /\ playing_segments'[u][1].expression # playing_segments'[u][3].expression
            /\ playing_segments'[u][1].expression # "neutral"
            /\ AllSegmentsPlayed(u)'
            /\ AllCallsSucceeded(u)' )
          => Expressions(actuator_calls'[u]) =
               <<playing_segments'[u][1].expression, playing_segments'[u][3].expression>>]_vars

C14_Witness ==
  /\ utterances = 1
  /\ Expressions(playing_segments[1]) = <<"happy", "happy", "sad">>
  /\ AllSegmentsPlayed(1)
  /\ AllCallsSucceeded(1)
  /\ Expressions(actuator_calls[1]) = <<"happy", "sad">>

\* C15: when the actuator answers a call of the expression task with a falsy
\* value (or raises), the tracked expression stays as it was and the task goes
\* on to the following segments; every segment whose label differs from the
\* tracked one when it is reached, the label that has just failed included,
\* gets a new actuator call
C15_ActuatorFailureIsolated ==
  [][\A u \in Utterances :
       segment_index'[u] = segment_index[u] + 1 =>
         LET segment == playing_segments[u][segment_index[u]]
             n == Len(actuator_calls'[u])
         IN segment.expression # current_expression =>
              /\ n = Len(actuator_calls[u]) + 1
              /\ actuator_calls'[u][n].expression = segment.expression
              /\ ~actuator_calls'[u][n].result =>
                   /\ current_expression' = current_expression
                   /\ expression_task'[u] \in {"sleeping", "ready"}]_vars

C15_Witness ==
  /\ Expressions(playing_segments[1]) = <<"happy", "happy", "sad">>
  /\ Len(actuator_calls[1]) = 2
  /\ actuator_calls[1][1] = [expression |-> "happy", result |-> FALSE]
  /\ actuator_calls[1][2] = [expression |-> "happy", result |-> TRUE]
  /\ current_expression = "happy"

\* the expression task of play_with_precise_sync has gone through all its
\* segments and stop_playback was not called
AllSyncedSegmentsPlayed ==
  /\ sync_expression_task = "done"
  /\ sync_index = Len(synced_segments) + 1
  /\ ~sync_stopped

\* C16: when all segments have been played, with no timeout and no
\* cancellation, and the actuator always succeeds, the tracked expression is
\* the base label "neutral" when the orchestrator has returned: for
\* speak_with_dynamic_expressions and for play_with_precise_sync
C16_FinalRevertToBase ==
  /\ \A u \in Utterances :
       ( /\ always_succeeds
         /\ utterances = 1
         /\ dynamic_pc[u] = "returned"
         /\ AllSegmentsPlayed(u) )
       => current_expression = "neutral"
  /\ ( /\ always_succeeds
       /\ sync_pc = "returned"
       /\ sync_result = "True"
       /\ AllSyncedSegmentsPlayed )
     => sync_current_expression = "neutral"

\* C17: the expression task calls the actuator only while the playing flag
\* is set: once stop_playback has cleared it, no call for a segment follows,
\* in _control_expressions_with_timing and in _control_expressions_precise
C17_NoCallAfterStop ==
  [][/\ \A u \in Utterances :
          Len(actuator_calls'[u]) > Len(actuator_calls[u]) => is_playing
     /\ Len(sync_calls') > Len(sync_calls) => sync_is_playing]_vars

\* C18: an expression task that sleeps for a segment when stop_playback
\* clears the playing flag unwinds at its next step: the step that takes it
\* out of the sleep ends it, and is not the expiry of the sleep's timer
C18_StopObservedDuringSleep ==
  [][/\ \A u \in Utterances :
          ( /\ expression_task[u] = "sleeping"
            /\ dynamic_pc[u] = "gathering"
            /\ ~is_playing
            /\ expression_task'[u] # "sleeping" )
          => expression_task'[u] \in {"done", "cancelled"}
     /\ ( /\ sync_expression_task = "sleeping"
          /\ sync_pc = "gathering"
          /\ ~sync_is_playing
          /\ sync_expression_task' # "sleeping" )
        => sync_expression_task' = "done"]_vars

\* a task that has been created and has not ended
Running(task) == task \in {"created", "ready", "sleeping", "speaking"}

\* C19: when speak_with_dynamic_expressions has left its playing phase (the
\* final revert issued, is_playing cleared, the result returned), neither the
\* voice task nor the expression task of the utterance is still running
C19_JoinBeforeLeavingPlaying ==
  \A u \in Utterances :
    dynamic_pc[u] = "returned" =>
      /\ ~Running(voice_task[u])
      /\ ~Running(expression_task[u])

\* C20: whatever the interleaving of speak_with_lipsync and stop_speaking
\* calls, at most one voice call is in flight and at most one expression task
\* is alive at any time
C20_NoDoubleDispatch ==
  /\ Cardinality({u \in Utterances : Running(voice_task[u])}) <= 1
  /\ Cardinality({u \in Utterances : Running(expression_task[u])}) <= 1

\* a is b with some elements left out
RECURSIVE IsSubsequence(_, _)
IsSubsequence(a, b) ==
  IF a = <<>> THEN TRUE
  ELSE IF b = <<>> THEN FALSE
  ELSE IF Head(a) = Head(b) THEN IsSubsequence(Tail(a), Tail(b))
  ELSE IsSubsequence(a, Tail(b))

\* C21: the switches of one playback are issued in segment order.  A run of
\* either expression task goes forward through the segments; the calls it
\* adds come after the earlier ones and carry, in order, labels of the
\* segments the run has gone through (a segment without a call is one whose
\* switch was suppressed), however late the run is
C21_SwitchesInSegmentOrder ==
  [][/\ \A u \in Utterances :
          /\ segment_index'[u] \in {segment_index[u], segment_index[u] + 1}
          /\ actuator_calls'[u] # actuator_calls[u] =>
               /\ segment_index'[u] = segment_index[u] + 1
               /\ Len(actuator_calls'[u]) = Len(actuator_calls[u]) + 1
               /\ SubSeq(actuator_calls'[u], 1, Len(actuator_calls[u])) = actuator_calls[u]
               /\ actuator_calls'[u][Len(actuator_calls'[u])].expression =
                    playing_segments[u][segment_index[u]].expression
     /\ sync_index' >= sync_index
     /\ Len(sync_calls') >= Len(sync_calls)
     /\ SubSeq(sync_calls', 1, Len(sync_calls)) = sync_calls
     /\ IsSubsequence(
          Expressions(SubSeq(sync_calls', Len(sync_calls) + 1, Len(sync_calls'))),
          Expressions(SubSeq(synced_segments, sync_index, sync_index' - 1)))]_vars

\* _control_expressions_precise has issued the switches of three segments,
\* nothing suppressed, the second with a start time that may be waited for
C21_Witness ==
  /\ Len(synced_segments) = 3
  /\ sync_expression_task = "done"
  /\ ~sync_stopped
  /\ Expressions(sync_calls) = Expressions(synced_segments)
  /\ synced_segments[2].start_time.num > 0

\* C22: a tag of an allowed label written in mixed case, also when only one
\* of its two tags is, is parsed as one segment with the lower-case label and
\* the text of the tag; and the validator repairs a reused opening tag in
\* mixed case as it repairs the lower-case one
C22_CaseInsensitiveLabels ==
  /\ (pc = "parsed" /\ validations = 0) =>
       \A o \in {"Happy", "happy"}, c \in {"Happy", "happy"} :
         ai_response = Open(<<o>>) \o <<"x">> \o Close(<<c>>) =>
           TextsAndLabels(segments) = <<<<(<<"x">>), "happy">>>>
  /\ (pc = "fixed" /\ validations = 1) =>
       ( before_fix = Open(<<"Happy">>) \o <<"x">> \o Open(<<"Happy">>) =>
           ai_response = Open(<<"Happy">>) \o <<"x">> \o Close(<<"Happy">>) )

\* the phrases of a list that have a pause of positive length
PhrasesWithPause(phrases) ==
  {k \in 1..Len(phrases) :
     /\ phrases[k].pause_mora.key = "mora"
     /\ phrases[k].pause_mora.vowel_length > 0}

\* C23: for every list of accent phrases _extract_phoneme_timing returns
\* phonemes on one running clock: the first starts at 0, each starts where
\* the one before it ends, there is one 'pau' for each phrase with a pause of
\* positive length and none for a phrase whose pause_mora is absent or null,
\* after which the extraction goes on with the following phrases
C23_RunningClock ==
  pc = "synced" =>
    /\ ~_extract_phoneme_timing(accent_phrases).raised
    /\ \A i \in 1..Len(_extract_phoneme_timing(accent_phrases).phonemes) :
         _extract_phoneme_timing(accent_phrases).phonemes[i].start_time =
           IF i = 1 THEN 0
           ELSE _extract_phoneme_timing(accent_phrases).phonemes[i - 1].end_time
    /\ Cardinality({i \in 1..Len(_extract_phoneme_timing(accent_phrases).phonemes) :
                      _extract_phoneme_timing(accent_phrases).phonemes[i].phoneme = "pau"})
         = Cardinality(PhrasesWithPause(accent_phrases))

\* C24: the step in which speak_with_dynamic_expressions starts for an
\* utterance issues an actuator call with the base label "neutral": it is the
\* latest call when the voice is started and before any call for a segment
C24_PreparingResetsToBase ==
  [][\A u \in Utterances :
       (dynamic_pc[u] = "none" /\ dynamic_pc'[u] # "none") =>
         /\ last_call' = "neutral"
         /\ actuator_calls'[u] = <<>>]_vars

\* C25: parse_expression_text returns no segment for a tag whose content is
\* empty or blank, nested in another allowed tag or not, nor for tags that
\* follow each other with no text between them; and every segment it returns
\* for any response has a text that is not blank
C25_NoEmptySegments ==
  (pc = "parsed" /\ validations = 0) =>
    /\ ai_response \in EmptyTagResponses => segments = <<>>
    /\ \A i \in 1..Len(segments) : Strip(segments[i].text) # <<>>

\* re.findall(r'<[^>]*>', s) finds something: a "<" with a ">" after it
HasRemainingTag(s) ==
  \E i \in 1..Len(s) : \E j \in (i + 1)..Len(s) : s[i] = "<" /\ s[j] = ">"

\* C26: the string returned by remove_expression_tags contains no substring
\* of the form <...>, for every input, well-formed or malformed
C26_SpeakableTextIsTagFree ==
  pc = "parsed" => ~HasRemainingTag(clean_text)

\* C27: content with newline characters between the tags: the validator
\* still rewrites <L>c<L> to <L>c</L> for an allowed label L, and the parser
\* still matches <L>c</L> as one tag
C27_MatchingNotLineBounded ==
  \A L \in {"happy", "sad"}, c \in MultilineContents :
    /\ (pc = "fixed" /\ validations = 1 /\ before_fix = Reused(L, c)) =>
         ai_response = Open(<<L>>) \o c \o Close(<<L>>)
    /\ (pc = "parsed" /\ validations = 0
          /\ ai_response = Open(<<L>>) \o c \o Close(<<L>>)) =>
         (Len(segments) = 1 /\ segments[1].expression = L)

\* C28: with an actuator that always succeeds, after any sequence of
\* set_expression, process_user_input and speak_with_dynamic_expressions the
\* tracked expression is the label most recently applied to the actuator
C28_TrackedMirrorsActuator ==
  (always_succeeds /\ last_call # "none") => current_expression = last_call

\* C29: every invocation of speak_with_lipsync that passes the is_speaking
\* guard eventually ends with is_speaking = False and is_playing = False,
\* whatever the synthesizer and the actuator do and also when the deadline
\* expires; while is_speaking holds no invocation passes the guard, and a
\* rejected one is no step: neither flag changes
C29_FlagsAlwaysReleased ==
  /\ \A u \in Utterances :
       (speak_pc[u] \in {"dynamic", "voice"}) ~>
         (speak_pc[u] = "returned" /\ ~is_speaking /\ ~is_playing)
  /\ [][is_speaking => utterances' = utterances]_vars

\* the deadline expired during playback with tags, and both flags are down
C29_Witness ==
  /\ speak_pc[1] = "returned"
  /\ timed_out[1]
  /\ dynamic_pc[1] = "cancelled"
  /\ voice_task[1] = "cancelled"
  /\ ~is_speaking
  /\ ~is_playing

\* C30: on a controller used for successive utterances, the expression task
\* of an utterance issues a switch only while its own
\* speak_with_dynamic_expressions has not returned, and a switch issued
\* while the latest utterance is playing carries the base label or the label
\* of one of that utterance's segments
C30_NoCrossUtteranceSwitches ==
  [][\A u \in Utterances :
       Len(actuator_calls'[u]) > Len(actuator_calls[u]) =>
         /\ dynamic_pc[u] = "gathering"
         /\ dynamic_pc[utterances] \in {"preparing", "gathering"} =>
              actuator_calls'[u][Len(actuator_calls'[u])].expression \in
                {"neutral"} \cup
                  {playing_segments[utterances][k].expression :
                     k \in 1..Len(playing_segments[utterances])}]_vars

====
